---- MODULE Spec2Model ----
(***************************************************************************)
(* The in-memory workspace of the mock IDE (src/src/App.tsx) together with *)
(* the two views that drive it: the file tree (Sidebar / FileItem) and the *)
(* tabbed editor (Editor), both in src/src/components/Editor.tsx.          *)
(*                                                                         *)
(* Text is modelled at character level: a path or a document text is a     *)
(* sequence of one-character strings, so that split('.'), template         *)
(* interpolation and JavaScript truthiness are computed, not assumed.      *)
(***************************************************************************)
EXTENDS Integers, Sequences, FiniteSets, TLC

\* Number of user-interface events explored from the initial state.
MaxSteps == 5

\* Number of operation calls explored from the initial state when the
\* operations are called directly.
MaxCalls == 4

VARIABLES
    activeFile,     \* App state: string | null
    openFiles,      \* App state: string[]
    fileContents,   \* App state: Record<string, string>
    last,           \* observation: the last operation, its argument, the state before it
                    \* (pre), the paths selected before it (selected) and, when a
                    \* closeFile(p) directly follows a selectFile(p) or closeFile(p),
                    \* that operation and the state before it (prev)
    selected,       \* observation: the paths passed to selectFile so far
    steps,          \* observation: the number of operations so far
    showTerminal,   \* App state: whether the Terminal component is mounted
    output,         \* Terminal state: TerminalOutput[]
    input,          \* Terminal state: the text of the input line
    commandHistory, \* Terminal state: string[]
    historyIndex,   \* Terminal state: -1 or a 0-based index into commandHistory
    tlast,          \* observation: the last terminal event, its argument and the
                    \* terminal state before it
    showAIChat,     \* App state: whether the AIChat component is mounted
    messages,       \* AIChat state: ChatMessage[]
    chatInput,      \* AIChat state: input, the text of the panel's input field
    isLoading,      \* AIChat state: boolean
    confidence,     \* AIChat state: the confidence of the last response shown
    requests,       \* the handleSend calls that have not run to their end
    clast,          \* observation: the last assistant-panel event, its argument
                    \* and the panel state before it
    analysis        \* observation: the last call of a service's analyzeCode, its
                    \* arguments and how it ended

workspaceVars == <<activeFile, openFiles, fileContents, last, selected>>
terminalVars ==
    <<showTerminal, output, input, commandHistory, historyIndex, tlast>>

chatVars ==
    <<showAIChat, messages, chatInput, isLoading, confidence, requests, clast>>

documentVars == <<activeFile, openFiles, fileContents>>

vars == <<workspaceVars, steps, terminalVars, chatVars, analysis>>

----------------------------------------------------------------------------
(* JavaScript values *)

\* null (activeFile) and undefined (a missing property) are distinct from
\* every text: texts hold one-character strings only.
Null == <<"<null>">>
Undefined == <<"<undefined>">>

\* !x for x a string, null or undefined: the empty string is falsy too.
Falsy(x) == x = Null \/ x = Undefined \/ x = <<>>

\* obj[key] on a Record<string, string>
Get(obj, key) == IF key \in DOMAIN obj THEN obj[key] ELSE Undefined

\* { ...prev, [key]: value }
Put(obj, key, value) ==
    [k \in DOMAIN obj \cup {key} |-> IF k = key THEN value ELSE obj[k]]

\* array.includes(x)
Includes(arr, x) == \E i \in 1..Len(arr) : arr[i] = x

\* array.filter(file => file !== x)
RECURSIVE FilterOut(_, _)
FilterOut(arr, x) ==
    IF arr = <<>> THEN <<>>
    ELSE IF Head(arr) # x THEN <<Head(arr)>> \o FilterOut(Tail(arr), x)
    ELSE FilterOut(Tail(arr), x)

\* str.split(sep) for a one-character separator: the segments between
\* separators (always at least one segment).
Split(str, sep) ==
    LET IsSeparator(i) == str[i] = sep
        \* the positions of the separators, in order
        separators == SelectSeq([i \in 1..Len(str) |-> i], IsSeparator)
        n == Len(separators)
        \* the position of the k-th separator, with the two ends of str as
        \* separators 0 and n + 1
        at(k) == IF k = 0 THEN 0
                 ELSE IF k = n + 1 THEN Len(str) + 1
                 ELSE separators[k]
    IN  [k \in 1..(n + 1) |-> SubSeq(str, at(k - 1) + 1, at(k) - 1)]

Pop(arr) == arr[Len(arr)]

\* str.startsWith(prefix)
\* String.prototype.includes
StringIncludes(str, search) ==
    \E i \in 0..(Len(str) - Len(search)) :
        SubSeq(str, i + 1, i + Len(search)) = search

StartsWith(text, prefix) ==
    Len(text) >= Len(prefix) /\ SubSeq(text, 1, Len(prefix)) = prefix

\* str.substring(start) for 0 <= start
Substring(str, start) ==
    IF start >= Len(str) THEN <<>> ELSE SubSeq(str, start + 1, Len(str))

\* The white space str.trim() removes (of the characters the model types).
WhiteSpace == {" ", "\t", "\n"}

\* str.trim()
RECURSIVE TrimStart(_)
TrimStart(str) ==
    IF str # <<>> /\ Head(str) \in WhiteSpace THEN TrimStart(Tail(str)) ELSE str

RECURSIVE TrimEnd(_)
TrimEnd(str) ==
    IF str # <<>> /\ str[Len(str)] \in WhiteSpace
    THEN TrimEnd(SubSeq(str, 1, Len(str) - 1))
    ELSE str

Trim(str) == TrimEnd(TrimStart(str))

\* str.toLowerCase(), on the ASCII letters
UpperCaseLetters ==
    <<"A","B","C","D","E","F","G","H","I","J","K","L","M",
      "N","O","P","Q","R","S","T","U","V","W","X","Y","Z">>
LowerCaseLetters ==
    <<"a","b","c","d","e","f","g","h","i","j","k","l","m",
      "n","o","p","q","r","s","t","u","v","w","x","y","z">>

ToLowerCaseChar(c) ==
    IF \E i \in 1..Len(UpperCaseLetters) : UpperCaseLetters[i] = c
    THEN LowerCaseLetters[CHOOSE i \in 1..Len(UpperCaseLetters) : UpperCaseLetters[i] = c]
    ELSE c

\* Variant: the command is not lower-cased.
ToLowerCase_Missing(str) == str

ToLowerCase(str) == [i \in 1..Len(str) |-> ToLowerCaseChar(str[i])]

----------------------------------------------------------------------------
(* The static file tree and the seeded documents *)

Src == <<"s","r","c">>
MainJsName == <<"m","a","i","n",".","j","s">>
UtilsJsName == <<"u","t","i","l","s",".","j","s">>
ComponentsName == <<"c","o","m","p","o","n","e","n","t","s">>
AppJsName == <<"A","p","p",".","j","s">>
HeaderJsName == <<"H","e","a","d","e","r",".","j","s">>
ReadmeMd == <<"R","E","A","D","M","E",".","m","d">>
PackageJson == <<"p","a","c","k","a","g","e",".","j","s","o","n">>
GitIgnore == <<".","g","i","t","i","g","n","o","r","e">>

File == [type |-> "file"]
Folder(children) == [type |-> "folder", children |-> children]

fileTree ==
    (Src :> Folder(
        (MainJsName :> File) @@ (UtilsJsName :> File) @@
        (ComponentsName :> Folder((AppJsName :> File) @@ (HeaderJsName :> File)))))
    @@ (ReadmeMd :> File) @@ (PackageJson :> File) @@ (GitIgnore :> File)

\* The paths FileItem hands to onFileSelect: a file node reports its own
\* path, a folder node renders each child under `${path}/${childName}`.
RECURSIVE FileItemPaths(_, _)
FileItemPaths(path, item) ==
    IF item.type = "folder"
    THEN UNION { FileItemPaths(path \o <<"/">> \o childName, item.children[childName]) :
                     childName \in DOMAIN item.children }
    ELSE {path}

\* Sidebar renders one FileItem per top-level entry, with path = name.
SidebarPaths == UNION { FileItemPaths(name, fileTree[name]) : name \in DOMAIN fileTree }

MainJs == Src \o <<"/">> \o MainJsName

\* The three seeded documents. Each text is its first line, character by
\* character, followed by one element standing for the remaining lines.
MainJsSeed ==
    <<"/","/"," ","W","e","l","c","o","m","e"," ","t","o"," ","A","I"," ","I","D","E","\n">>
    \o <<"console.log('Hello, World!'); ... (App.tsx 14-24)">>
ReadmeSeed ==
    <<"#"," ","M","y"," ","P","r","o","j","e","c","t","\n">>
    \o <<"Welcome to your new project! ... (App.tsx 26-42)">>
PackageSeed ==
    <<"{","\n">> \o <<"\"name\": \"ai-ide-project\", ... (App.tsx 44-56)">>

InitialFileContents ==
    (MainJs :> MainJsSeed) @@ (ReadmeMd :> ReadmeSeed) @@ (PackageJson :> PackageSeed)

----------------------------------------------------------------------------
(* The workspace handlers of App *)

\* const extension = filePath.split('.').pop()
Extension(filePath) == Pop(Split(filePath, "."))

HtmlSkeleton ==
    <<"<","!","D","O","C","T","Y","P","E"," ","h","t","m","l",">","\n",
      "<","h","t","m","l",">","\n",
      "<","h","e","a","d",">","\n",
      " "," ","<","t","i","t","l","e",">","D","o","c","u","m","e","n","t",
      "<","/","t","i","t","l","e",">","\n",
      "<","/","h","e","a","d",">","\n",
      "<","b","o","d","y",">","\n",
      " "," ","\n",
      "<","/","b","o","d","y",">","\n",
      "<","/","h","t","m","l",">">>

\* Variant: the 'py' case is missing and falls through to the default.
DefaultContent_NoPyCase(filePath) ==
    LET extension == Extension(filePath)
    IN  CASE extension = <<"h","t","m","l">> -> HtmlSkeleton
          [] extension = <<"c","s","s">> ->
                 <<"/","*"," ">> \o filePath \o <<" ","*","/","\n","\n">>
          [] OTHER -> <<"/","/"," ">> \o filePath \o <<"\n","\n">>

\* The switch on the extension that builds defaultContent.
DefaultContent(filePath) ==
    LET extension == Extension(filePath)
    IN  CASE extension = <<"j","s">> -> <<"/","/"," ">> \o filePath \o <<"\n","\n">>
          [] extension = <<"p","y">> -> <<"#"," ">> \o filePath \o <<"\n","\n">>
          [] extension = <<"h","t","m","l">> -> HtmlSkeleton
          [] extension = <<"c","s","s">> ->
                 <<"/","*"," ">> \o filePath \o <<" ","*","/","\n","\n">>
          [] OTHER -> <<"/","/"," ">> \o filePath \o <<"\n","\n">>

\* Variant: the includes() test is missing, the path is always appended.
handleFileSelect_AlwaysAppends(filePath) ==
    /\ activeFile' = filePath
    /\ openFiles' = Append(openFiles, filePath)
    /\ fileContents' = IF Falsy(Get(fileContents, filePath))
                       THEN Put(fileContents, filePath, DefaultContent(filePath))
                       ELSE fileContents

\* Variant: an already open path is moved to the end of the tab strip.
handleFileSelect_MovesToEnd(filePath) ==
    /\ activeFile' = filePath
    /\ openFiles' = Append(FilterOut(openFiles, filePath), filePath)
    /\ fileContents' = IF Falsy(Get(fileContents, filePath))
                       THEN Put(fileContents, filePath, DefaultContent(filePath))
                       ELSE fileContents

\* Variant: no default content is generated.
handleFileSelect_NoDefaultContent(filePath) ==
    /\ activeFile' = filePath
    /\ openFiles' = IF ~Includes(openFiles, filePath)
                    THEN Append(openFiles, filePath)
                    ELSE openFiles
    /\ UNCHANGED fileContents

handleFileSelect(filePath) ==
    /\ activeFile' = filePath
    /\ openFiles' = IF ~Includes(openFiles, filePath)
                    THEN Append(openFiles, filePath)
                    ELSE openFiles
    /\ fileContents' = IF Falsy(Get(fileContents, filePath))
                       THEN Put(fileContents, filePath, DefaultContent(filePath))
                       ELSE fileContents

\* Variant: the active path is not reassigned when its tab closes.
handleFileClose_KeepsActive(filePath) ==
    /\ openFiles' = FilterOut(openFiles, filePath)
    /\ UNCHANGED <<activeFile, fileContents>>

\* Variant: the first remaining tab, not the last, becomes active.
handleFileClose_ActivatesFirst(filePath) ==
    LET newOpenFiles == FilterOut(openFiles, filePath)
    IN  /\ openFiles' = newOpenFiles
        /\ activeFile' = IF activeFile = filePath
                         THEN IF Len(newOpenFiles) > 0 THEN newOpenFiles[1] ELSE Null
                         ELSE activeFile
        /\ UNCHANGED fileContents

\* Variant: closing a tab also deletes the document's content entry.
handleFileClose_DeletesContent(filePath) ==
    LET newOpenFiles == FilterOut(openFiles, filePath)
    IN  /\ openFiles' = newOpenFiles
        /\ activeFile' = IF activeFile = filePath
                         THEN IF Len(newOpenFiles) > 0
                              THEN newOpenFiles[Len(newOpenFiles)]
                              ELSE Null
                         ELSE activeFile
        /\ fileContents' = [k \in DOMAIN fileContents \ {filePath} |-> fileContents[k]]

\* Variant: the test activeFile === filePath is missing.
handleFileClose_AlwaysReassigns(filePath) ==
    LET newOpenFiles == FilterOut(openFiles, filePath)
    IN  /\ openFiles' = newOpenFiles
        /\ activeFile' = IF Len(newOpenFiles) > 0
                         THEN newOpenFiles[Len(newOpenFiles)]
                         ELSE Null
        /\ UNCHANGED fileContents

handleFileClose(filePath) ==
    LET newOpenFiles == FilterOut(openFiles, filePath)
    IN  /\ openFiles' = newOpenFiles
        /\ activeFile' = IF activeFile = filePath
                         THEN IF Len(newOpenFiles) > 0
                              THEN newOpenFiles[Len(newOpenFiles)]
                              ELSE Null
                         ELSE activeFile
        /\ UNCHANGED fileContents

\* Variant: the Editor is handed handleFileSelect as onFileSelect.
setActiveFile_IsHandleFileSelect(filePath) ==
    handleFileSelect(filePath)

\* The state setter the Editor receives as onFileSelect.
setActiveFile(filePath) ==
    /\ activeFile' = filePath
    /\ UNCHANGED <<openFiles, fileContents>>

\* Variant: the spread of the previous mapping is missing.
handleCodeChange_DropsOthers(value) ==
    /\ fileContents' = IF ~Falsy(activeFile)
                       THEN (activeFile :> value)
                       ELSE fileContents
    /\ UNCHANGED <<activeFile, openFiles>>

\* Variant: the guard on activeFile is missing.
handleCodeChange_NoGuard(value) ==
    /\ fileContents' = Put(fileContents, activeFile, value)
    /\ UNCHANGED <<activeFile, openFiles>>

handleCodeChange(value) ==
    /\ fileContents' = IF ~Falsy(activeFile)
                       THEN Put(fileContents, activeFile, value)
                       ELSE fileContents
    /\ UNCHANGED <<activeFile, openFiles>>

----------------------------------------------------------------------------
(* Observation: the last handler invocation and the state it ran in *)

Workspace ==
    [activeFile |-> activeFile, openFiles |-> openFiles, fileContents |-> fileContents]

Invoked(op, arg) ==
    /\ steps' = steps + 1
    /\ UNCHANGED <<terminalVars, chatVars, analysis>>
    /\ last' = [op |-> op, arg |-> arg, pre |-> Workspace, selected |-> selected,
                prev |-> IF /\ op = "closeFile"
                            /\ last.op \in {"selectFile", "closeFile"}
                            /\ last.arg = arg
                         THEN {[op |-> last.op, pre |-> last.pre]}
                         ELSE {}]
    /\ selected' = IF op = "selectFile" THEN selected \cup {arg} ELSE selected

----------------------------------------------------------------------------
(* The user interface: the events the rendered views can deliver *)

\* Texts the textarea can report after a keystroke (the whole new value).
EditTexts == { <<>>, <<"x">> }

WorkspaceInit ==
    /\ activeFile = MainJs
    /\ openFiles = <<MainJs>>
    /\ fileContents = InitialFileContents
    /\ steps = 0
    /\ selected = {}
    /\ last = [op |-> "init", arg |-> Null, selected |-> {}, prev |-> {},
               pre |-> [activeFile |-> MainJs, openFiles |-> <<MainJs>>,
                        fileContents |-> InitialFileContents]]

----------------------------------------------------------------------------
(* The initial state of the terminal simulator (src/unnamed/part_000) and  *)
(* of the application                                                      *)

\* A TerminalOutput without its id and timestamp, which are only used as
\* React keys.
Entry(type, content) == [type |-> type, content |-> content]

InitialOutput ==
    << Entry("output", <<"Welcome to AI IDE Terminal v1.0.0">>),
       Entry("output", <<"Type \"help\" for available commands.">>) >>

Terminal ==
    [output |-> output, input |-> input, commandHistory |-> commandHistory,
     historyIndex |-> historyIndex]

\* The state the Terminal component is created with (its useState
\* initial values).
InitialTerminal ==
    [output |-> InitialOutput, input |-> <<>>, commandHistory |-> <<>>,
     historyIndex |-> -1]

TerminalInit ==
    /\ showTerminal = FALSE
    /\ output = InitialTerminal.output
    /\ input = InitialTerminal.input
    /\ commandHistory = InitialTerminal.commandHistory
    /\ historyIndex = InitialTerminal.historyIndex
    /\ tlast = [op |-> "init", arg |-> <<>>, pre |-> InitialTerminal]

\* A ChatMessage without its id and timestamp; kind names the template
\* the content was produced from.
Message(type, kind, content) == [type |-> type, kind |-> kind, content |-> content]

InitialMessages ==
    << Message("assistant", "welcome", <<"Claude-4-Professional AI Assistant ready! ...">>) >>

Chat ==
    [messages |-> messages, input |-> chatInput, isLoading |-> isLoading,
     confidence |-> confidence, requests |-> requests]

\* The state the AIChat component is created with (its useState initial
\* values).
InitialChat ==
    [messages |-> InitialMessages, input |-> <<>>, isLoading |-> FALSE,
     confidence |-> "0"]

ChatInit ==
    /\ showAIChat = FALSE
    /\ messages = InitialChat.messages
    /\ chatInput = InitialChat.input
    /\ isLoading = InitialChat.isLoading
    /\ confidence = InitialChat.confidence
    /\ requests = {}
    /\ clast = [op |-> "init", arg |-> <<>>,
                pre |-> [messages |-> InitialMessages, input |-> <<>>,
                         isLoading |-> FALSE, confidence |-> "0", requests |-> {}]]

\* No call of analyzeCode has been made.
AnalysisInit ==
    analysis = [service |-> "none", code |-> <<>>, language |-> <<>>,
                threw |-> FALSE, complexity |-> 0]

Init == WorkspaceInit /\ TerminalInit /\ ChatInit /\ AnalysisInit

----------------------------------------------------------------------------
(* The events of the file tree and the editor *)

\* FileItem.handleClick on a file node of the tree.
FileItemClick(path) ==
    /\ path \in SidebarPaths
    /\ steps < MaxSteps
    /\ handleFileSelect(path)
    /\ Invoked("selectFile", path)

\* Editor renders the tab strip and the textarea only while activeFile is
\* truthy; it renders one tab (with its close button) per element of
\* openFiles.
TabClick(file) ==
    /\ ~Falsy(activeFile)
    /\ steps < MaxSteps
    /\ setActiveFile(file)
    /\ Invoked("setActiveFile", file)

TabCloseClick(file) ==
    /\ ~Falsy(activeFile)
    /\ steps < MaxSteps
    /\ handleFileClose(file)
    /\ Invoked("closeFile", file)

TextareaChange(value) ==
    /\ ~Falsy(activeFile)
    /\ steps < MaxSteps
    /\ handleCodeChange(value)
    /\ Invoked("updateContent", value)

Next ==
    \/ \E path \in SidebarPaths : FileItemClick(path)
    \/ \E i \in 1..Len(openFiles) : TabClick(openFiles[i])
    \/ \E i \in 1..Len(openFiles) : TabCloseClick(openFiles[i])
    \/ \E value \in EditTexts : TextareaChange(value)

Spec == Init /\ [][Next]_vars

----------------------------------------------------------------------------
(* The workspace operations as an interface: selectFile, closeFile,        *)
(* setActiveFile and updateContent called by any caller, on any path       *)

AJs == <<"a",".","j","s">>
BPy == <<"b",".","p","y">>
IndexHtml == <<"i",".","h","t","m","l">>
StyleCss == <<"s",".","c","s","s">>
NotesTxt == <<"n",".","t","x","t">>
APyJs == <<"a",".","p","y",".","j","s">>
Py == <<"p","y">>

\* Paths handed to the operations: every recognised extension, an
\* unrecognised one, two dots, no dot at all, and two seeded documents.
OpPaths == {MainJs, ReadmeMd, AJs, BPy, IndexHtml, StyleCss, NotesTxt, APyJs, Py}

selectFile(path) ==
    /\ path \in OpPaths
    /\ steps < MaxCalls
    /\ handleFileSelect(path)
    /\ Invoked("selectFile", path)

closeFile(path) ==
    /\ path \in OpPaths
    /\ steps < MaxCalls
    /\ handleFileClose(path)
    /\ Invoked("closeFile", path)

\* No validation is performed; the caller passes an open path only.
activateFile(path) ==
    /\ Includes(openFiles, path)
    /\ steps < MaxCalls
    /\ setActiveFile(path)
    /\ Invoked("setActiveFile", path)

updateContent(newText) ==
    /\ steps < MaxCalls
    /\ handleCodeChange(newText)
    /\ Invoked("updateContent", newText)

NextOps ==
    \/ \E path \in OpPaths : selectFile(path)
    \/ \E path \in OpPaths : closeFile(path)
    \/ \E path \in OpPaths : activateFile(path)
    \/ \E newText \in EditTexts : updateContent(newText)

SpecOps == Init /\ [][NextOps]_vars

----------------------------------------------------------------------------
(* The terminal simulator (src/unnamed/part_000) *)

\* Number of terminal events explored from the initial state.
MaxKeys == 5

CmdHelp == <<"h","e","l","p">>
CmdClear == <<"c","l","e","a","r">>
CmdLs == <<"l","s">>
CmdPwd == <<"p","w","d">>
CmdDate == <<"d","a","t","e">>
CmdWhoami == <<"w","h","o","a","m","i">>
CmdNodeVersion == <<"n","o","d","e"," ","-","-","v","e","r","s","i","o","n">>
CmdNpmVersion == <<"n","p","m"," ","-","-","v","e","r","s","i","o","n">>
CmdGitVersion == <<"g","i","t"," ","-","-","v","e","r","s","i","o","n">>
EchoPrefix == <<"e","c","h","o"," ">>

\* The fixed response texts. The two multi-line texts are held line by line
\* (one element per line, "\n" between lines); the others character by
\* character.
HelpText ==
    <<"Available commands:", "\n",
      "  help          - Show this help message", "\n",
      "  clear         - Clear terminal output", "\n",
      "  ls            - List files and directories", "\n",
      "  pwd           - Print working directory", "\n",
      "  date          - Show current date and time", "\n",
      "  whoami        - Display current user", "\n",
      "  echo [text]   - Display text", "\n",
      "  node --version - Show Node.js version", "\n",
      "  npm --version  - Show npm version", "\n",
      "  git --version  - Show Git version">>
LsText ==
    <<"src/", "\n", "  main.js", "\n", "  utils.js", "\n", "  components/", "\n",
      "    App.js", "\n", "    Header.js", "\n", "README.md", "\n",
      "package.json", "\n", ".gitignore">>
PwdText == <<"/","h","o","m","e","/","p","r","o","j","e","c","t">>
WhoamiText == <<"d","e","v","e","l","o","p","e","r">>
NodeVersionText == <<"v","1","8",".","1","7",".","0">>
NpmVersionText == <<"9",".","6",".","7">>
GitVersionText ==
    <<"g","i","t"," ","v","e","r","s","i","o","n"," ","2",".","4","1",".",
      "0">>
NotFoundPrefix ==
    <<"C","o","m","m","a","n","d"," ","n","o","t"," ","f","o","u","n","d",
      ":"," ">>
NotFoundSuffix ==
    <<"."," ","T","y","p","e"," ","'","h","e","l","p","'"," ","f","o","r",
      " ","a","v","a","i","l","a","b","l","e"," ","c","o","m","m","a","n",
      "d","s",".">>
InputPrompt == <<"$"," ">>

\* new Date().toString(): whatever the clock says when the command runs.
DateStrings == { <<"Mon Nov 02 2026 10:00:00">>, <<"Mon Nov 02 2026 10:00:01">> }

\* Variant: the echo test is cmd.startsWith('echo'), without the space.
ResponseOutput_EchoWithoutSpace(command, cmd, now) ==
    CASE cmd = CmdHelp -> Entry("output", HelpText)
      [] cmd = CmdLs -> Entry("output", LsText)
      [] cmd = CmdPwd -> Entry("output", PwdText)
      [] cmd = CmdDate -> Entry("output", now)
      [] cmd = CmdWhoami -> Entry("output", WhoamiText)
      [] cmd = CmdNodeVersion -> Entry("output", NodeVersionText)
      [] cmd = CmdNpmVersion -> Entry("output", NpmVersionText)
      [] cmd = CmdGitVersion -> Entry("output", GitVersionText)
      [] OTHER ->
             IF StartsWith(cmd, <<"e","c","h","o">>)
             THEN Entry("output", Substring(command, 5))
             ELSE Entry("error", NotFoundPrefix \o command \o NotFoundSuffix)

\* The response entry of executeCommand's switch, for every command but
\* 'clear' (which returns before any entry is built).
ResponseOutput(command, cmd, now) ==
    CASE cmd = CmdHelp -> Entry("output", HelpText)
      [] cmd = CmdLs -> Entry("output", LsText)
      [] cmd = CmdPwd -> Entry("output", PwdText)
      [] cmd = CmdDate -> Entry("output", now)
      [] cmd = CmdWhoami -> Entry("output", WhoamiText)
      [] cmd = CmdNodeVersion -> Entry("output", NodeVersionText)
      [] cmd = CmdNpmVersion -> Entry("output", NpmVersionText)
      [] cmd = CmdGitVersion -> Entry("output", GitVersionText)
      [] OTHER ->
             IF StartsWith(cmd, EchoPrefix)
             THEN Entry("output", Substring(command, 5))
             ELSE Entry("error", NotFoundPrefix \o command \o NotFoundSuffix)

\* Variant: 'clear' empties the history buffer as well.
executeCommand_ClearResetsHistory(command, now) ==
    LET cmd == ToLowerCase(Trim(command))
        inputOutput == Entry("input", InputPrompt \o command)
    IN  /\ commandHistory' = IF cmd = CmdClear THEN <<>> ELSE Append(commandHistory, command)
        /\ historyIndex' = -1
        /\ output' = IF cmd = CmdClear
                     THEN <<>>
                     ELSE output \o <<inputOutput, ResponseOutput(command, cmd, now)>>

\* Variant: the previous entries are not spread into the new log.
executeCommand_ReplacesLog(command, now) ==
    LET cmd == ToLowerCase(Trim(command))
        inputOutput == Entry("input", InputPrompt \o command)
    IN  /\ commandHistory' = Append(commandHistory, command)
        /\ historyIndex' = -1
        /\ output' = IF cmd = CmdClear
                     THEN <<>>
                     ELSE <<inputOutput, ResponseOutput(command, cmd, now)>>

\* Variant: the history buffer receives the normalised command.
executeCommand_HistoryNormalised(command, now) ==
    LET cmd == ToLowerCase(Trim(command))
        inputOutput == Entry("input", InputPrompt \o command)
    IN  /\ commandHistory' = Append(commandHistory, cmd)
        /\ historyIndex' = -1
        /\ output' = IF cmd = CmdClear
                     THEN <<>>
                     ELSE output \o <<inputOutput, ResponseOutput(command, cmd, now)>>

\* executeCommand, but for the input line, which its caller resets.
executeCommand(command, now) ==
    LET cmd == ToLowerCase(Trim(command))
        inputOutput == Entry("input", InputPrompt \o command)
    IN  /\ commandHistory' = Append(commandHistory, command)
        /\ historyIndex' = -1
        /\ output' = IF cmd = CmdClear
                     THEN <<>>
                     ELSE output \o <<inputOutput, ResponseOutput(command, cmd, now)>>

\* Variant: ArrowDown past the newest entry wraps to the oldest entry.
handleKeyDown_ArrowDownWraps(key, now) ==
    CASE key = "Enter" ->
             /\ IF Trim(input) # <<>>
                THEN executeCommand(input, now)
                ELSE UNCHANGED <<commandHistory, historyIndex, output>>
             /\ input' = <<>>
      [] key = "ArrowUp" ->
             IF Len(commandHistory) > 0
             THEN LET newIndex == IF historyIndex = -1
                                  THEN Len(commandHistory) - 1
                                  ELSE IF historyIndex - 1 > 0 THEN historyIndex - 1 ELSE 0
                  IN  /\ historyIndex' = newIndex
                      /\ input' = commandHistory[newIndex + 1]
                      /\ UNCHANGED <<commandHistory, output>>
             ELSE UNCHANGED <<commandHistory, historyIndex, output, input>>
      [] key = "ArrowDown" ->
             IF historyIndex # -1
             THEN LET newIndex == (historyIndex + 1) % Len(commandHistory)
                  IN  /\ historyIndex' = newIndex
                      /\ input' = commandHistory[newIndex + 1]
                      /\ UNCHANGED <<commandHistory, output>>
             ELSE UNCHANGED <<commandHistory, historyIndex, output, input>>

handleKeyDown(key, now) ==
    CASE key = "Enter" ->
             /\ IF Trim(input) # <<>>
                THEN executeCommand(input, now)
                ELSE UNCHANGED <<commandHistory, historyIndex, output>>
             /\ input' = <<>>
      [] key = "ArrowUp" ->
             IF Len(commandHistory) > 0
             THEN LET newIndex == IF historyIndex = -1
                                  THEN Len(commandHistory) - 1
                                  ELSE IF historyIndex - 1 > 0 THEN historyIndex - 1 ELSE 0
                  IN  /\ historyIndex' = newIndex
                      /\ input' = commandHistory[newIndex + 1]
                      /\ UNCHANGED <<commandHistory, output>>
             ELSE UNCHANGED <<commandHistory, historyIndex, output, input>>
      [] key = "ArrowDown" ->
             IF historyIndex # -1
             THEN LET newIndex == historyIndex + 1
                  IN  /\ IF newIndex >= Len(commandHistory)
                         THEN historyIndex' = -1 /\ input' = <<>>
                         ELSE /\ historyIndex' = newIndex
                              /\ input' = commandHistory[newIndex + 1]
                      /\ UNCHANGED <<commandHistory, output>>
             ELSE UNCHANGED <<commandHistory, historyIndex, output, input>>

clearTerminal ==
    /\ output' = <<>>
    /\ UNCHANGED <<input, commandHistory, historyIndex>>

\* The lines typed into the input field.
TypedLines == {
    <<"h","e","l","p">>,
    <<" ","H","E","L","P"," ">>,
    <<"c","l","e","a","r">>,
    <<" ","C","l","e","a","r"," ">>,
    <<"l","s">>,
    <<"p","w","d">>,
    <<"d","a","t","e">>,
    <<"w","h","o","a","m","i">>,
    <<"n","o","d","e"," ","-","-","v","e","r","s","i","o","n">>,
    <<"n","p","m"," ","-","-","v","e","r","s","i","o","n">>,
    <<"g","i","t"," ","-","-","v","e","r","s","i","o","n">>,
    <<"e","c","h","o"," ","h","e","l","l","o"," ","w","o","r","l","d">>,
    <<" "," ","E","C","H","O"," ","H","i">>,
    <<"E","c","h","o"," ","H","i">>,
    <<"e","c","h","o">>,
    <<"f","o","o">>,
    <<"F","o","o">>,
    <<>>,
    <<" "," ">> }

TerminalEvent(op, arg) ==
    /\ showTerminal
    /\ steps < MaxKeys
    /\ steps' = steps + 1
    /\ tlast' = [op |-> op, arg |-> arg, pre |-> Terminal]
    /\ UNCHANGED <<showTerminal, workspaceVars, chatVars, analysis>>

\* onChange of the input field
InputChange(value) ==
    /\ input' = value
    /\ UNCHANGED <<output, commandHistory, historyIndex>>
    /\ TerminalEvent("type", value)

\* onKeyDown of the input field
InputKeyDown(key, now) ==
    /\ handleKeyDown(key, now)
    /\ TerminalEvent(key, input)

\* The header's clear button
ClearButtonClick ==
    /\ clearTerminal
    /\ TerminalEvent("clearButton", <<>>)

\* The header's Terminal button of App mounts or unmounts the component;
\* a mounted component starts from its initial state.
TerminalToggle ==
    /\ steps < MaxKeys
    /\ steps' = steps + 1
    /\ showTerminal' = ~showTerminal
    /\ output' = InitialTerminal.output
    /\ input' = InitialTerminal.input
    /\ commandHistory' = InitialTerminal.commandHistory
    /\ historyIndex' = InitialTerminal.historyIndex
    /\ tlast' = [op |-> "toggle", arg |-> <<>>, pre |-> Terminal]
    /\ UNCHANGED <<workspaceVars, chatVars, analysis>>

NextTerminal ==
    \/ \E value \in TypedLines : InputChange(value)
    \/ \E key \in {"Enter", "ArrowUp", "ArrowDown"}, now \in DateStrings :
           InputKeyDown(key, now)
    \/ ClearButtonClick
    \/ TerminalToggle

SpecTerminal == Init /\ [][NextTerminal]_vars

----------------------------------------------------------------------------
(* The assistant panel (src/src/components/AIChat.tsx) and the service it  *)
(* calls (src/unnamed/part_001, src/unnamed/part_002)                      *)

\* Number of assistant-panel events explored from the initial state.
MaxChat == 7

Analyze == <<"a","n","a","l","y","z","e">>
Review == <<"r","e","v","i","e","w">>
Optimize == <<"o","p","t","i","m","i","z","e">>
Improve == <<"i","m","p","r","o","v","e">>
Explain == <<"e","x","p","l","a","i","n">>

\* Variant: 'explain' is tested before 'optimize' and 'improve'.
Route_ExplainBeforeOptimize(text) ==
    LET lower == ToLowerCase(text)
    IN  IF StringIncludes(lower, Analyze) \/ StringIncludes(lower, Review)
        THEN "analysis"
        ELSE IF StringIncludes(lower, Explain)
        THEN "explanation"
        ELSE IF StringIncludes(lower, Optimize) \/ StringIncludes(lower, Improve)
        THEN "optimization"
        ELSE "generation"

\* The if / else-if chain of handleSend: the service method the input is
\* routed to.
Route(text) ==
    LET lower == ToLowerCase(text)
    IN  IF StringIncludes(lower, Analyze) \/ StringIncludes(lower, Review)
        THEN "analysis"
        ELSE IF StringIncludes(lower, Optimize) \/ StringIncludes(lower, Improve)
        THEN "optimization"
        ELSE IF StringIncludes(lower, Explain)
        THEN "explanation"
        ELSE "generation"

\* How a call of the service can end. generateCode builds its answer from
\* literals; analyzeCode, which optimizeCode and explainCode await as well,
\* resolves after a timer in part_001 and builds a RegExp from each
\* complexity keyword, '?' among them, in part_002.
ServiceOutcomes(branch) ==
    IF branch = "generation" THEN {"resolved"} ELSE {"resolved", "rejected"}

\* The message a resolved request appends; its content is the service's
\* template for the branch.
ResponseMessage(branch) ==
    CASE branch = "analysis" ->
             Message("assistant", "analysis", <<"## Code Analysis Complete ...">>)
      [] branch = "optimization" ->
             Message("assistant", "optimization", <<"aiResponse.content of optimizeCode">>)
      [] branch = "explanation" ->
             Message("assistant", "explanation", <<"aiResponse.content of explainCode">>)
      [] branch = "generation" ->
             Message("assistant", "generation", <<"aiResponse.content of generateCode">>)

FallbackMessage ==
    Message("assistant", "fallback",
            <<"I apologize, but I encountered an error processing your request. ...">>)

ApplyMessage ==
    Message("assistant", "applyOffer",
            <<"Would you like me to apply this code to your editor? ...">>)

\* Variant: the loading flag is not raised.
handleSend_NoLoadingFlag ==
    IF Trim(chatInput) = <<>>
    THEN UNCHANGED <<messages, chatInput, isLoading, confidence, requests, documentVars>>
    ELSE /\ messages' = Append(messages, Message("user", "user", chatInput))
         /\ chatInput' = <<>>
         /\ requests' = requests \cup
                {[id |-> steps, branch |-> Route(chatInput), stage |-> "awaiting",
                  mounted |-> TRUE]}
         /\ UNCHANGED <<isLoading, confidence, documentVars>>

\* handleSend up to its await: the user's message is appended, the input
\* field emptied, the loading flag raised and the service called.
handleSend ==
    IF Trim(chatInput) = <<>>
    THEN UNCHANGED <<messages, chatInput, isLoading, confidence, requests, documentVars>>
    ELSE /\ messages' = Append(messages, Message("user", "user", chatInput))
         /\ chatInput' = <<>>
         /\ isLoading' = TRUE
         /\ requests' = requests \cup
                {[id |-> steps, branch |-> Route(chatInput), stage |-> "awaiting",
                  mounted |-> TRUE]}
         /\ UNCHANGED <<confidence, documentVars>>

\* Variant: the loading flag is cleared after a response only, not in a
\* finally block.
handleSendResumes_NoFinally(r, outcome) ==
    /\ r.stage = "awaiting"
    /\ outcome \in ServiceOutcomes(r.branch)
    /\ IF r.mounted
       THEN /\ messages' = Append(messages, IF outcome = "resolved"
                                            THEN ResponseMessage(r.branch)
                                            ELSE FallbackMessage)
            /\ confidence' = IF outcome = "resolved" /\ r.branch # "analysis"
                             THEN r.branch
                             ELSE confidence
            /\ isLoading' = IF outcome = "resolved" THEN FALSE ELSE isLoading
       ELSE UNCHANGED <<messages, confidence, isLoading>>
    /\ requests' = IF outcome = "resolved" /\ r.branch = "generation"
                   THEN (requests \ {r}) \cup {[r EXCEPT !.stage = "applyTimer"]}
                   ELSE requests \ {r}
    /\ UNCHANGED <<chatInput, documentVars>>

\* handleSend after its await, for the call r: the response or the
\* fallback message is appended and the loading flag cleared; a generation
\* response, which always carries a code block, starts the timer of the
\* apply offer. The state setters of a component that has been unmounted
\* have no effect.
handleSendResumes(r, outcome) ==
    /\ r.stage = "awaiting"
    /\ outcome \in ServiceOutcomes(r.branch)
    /\ IF r.mounted
       THEN /\ messages' = Append(messages, IF outcome = "resolved"
                                            THEN ResponseMessage(r.branch)
                                            ELSE FallbackMessage)
            /\ confidence' = IF outcome = "resolved" /\ r.branch # "analysis"
                             THEN r.branch
                             ELSE confidence
            /\ isLoading' = FALSE
       ELSE UNCHANGED <<messages, confidence, isLoading>>
    /\ requests' = IF outcome = "resolved" /\ r.branch = "generation"
                   THEN (requests \ {r}) \cup {[r EXCEPT !.stage = "applyTimer"]}
                   ELSE requests \ {r}
    /\ UNCHANGED <<chatInput, documentVars>>

\* Variant: the callback hands the generated code to onCodeSuggestion.
applyTimeout_AppliesCode(r) ==
    /\ r.stage = "applyTimer"
    /\ messages' = IF r.mounted THEN Append(messages, ApplyMessage) ELSE messages
    /\ requests' = requests \ {r}
    /\ handleCodeChange(<<"aiResponse.codeBlocks[0].code">>)
    /\ UNCHANGED <<chatInput, isLoading, confidence>>

\* The callback of the apply offer's setTimeout, for the call r.
applyTimeout(r) ==
    /\ r.stage = "applyTimer"
    /\ messages' = IF r.mounted THEN Append(messages, ApplyMessage) ELSE messages
    /\ requests' = requests \ {r}
    /\ UNCHANGED <<chatInput, isLoading, confidence, documentVars>>

quickPrompts == <<
    <<"P","l","e","a","s","e"," ","a","n","a","l","y","z","e"," ","m","y",
      " ","c","u","r","r","e","n","t"," ","c","o","d","e"," ","f","o","r",
      " ","i","s","s","u","e","s",","," ","c","o","m","p","l","e","x","i",
      "t","y",","," ","a","n","d"," ","q","u","a","l","i","t","y"," ","m",
      "e","t","r","i","c","s",".">>,
    <<"O","p","t","i","m","i","z","e"," ","t","h","i","s"," ","c","o","d",
      "e"," ","f","o","r"," ","b","e","t","t","e","r"," ","p","e","r","f",
      "o","r","m","a","n","c","e"," ","a","n","d"," ","m","a","i","n","t",
      "a","i","n","a","b","i","l","i","t","y",".">>,
    <<"E","x","p","l","a","i","n"," ","h","o","w"," ","t","h","i","s"," ",
      "c","o","d","e"," ","w","o","r","k","s"," ","a","n","d"," ","i","t",
      "s"," ","k","e","y"," ","c","o","m","p","o","n","e","n","t","s",".">>,
    <<"G","e","n","e","r","a","t","e"," ","c","o","m","p","r","e","h","e",
      "n","s","i","v","e"," ","u","n","i","t"," ","t","e","s","t","s"," ",
      "f","o","r"," ","t","h","i","s"," ","c","o","d","e",".">> >>

\* Texts typed into the panel's input field.
ChatTexts == {
    <<"A","n","a","l","y","z","e"," ","a","n","d"," ","e","x","p","l","a",
      "i","n">>,
    <<"e","x","p","l","a","i","n",","," ","t","h","e","n"," ","r","e","v",
      "i","e","w">>,
    <<"O","p","t","i","m","i","z","e"," ","a","f","t","e","r"," ","y","o",
      "u"," ","A","N","A","L","Y","Z","E">>,
    <<"e","x","p","l","a","i","n"," ","a","n","d"," ","o","p","t","i","m",
      "i","z","e">>,
    <<"i","m","p","r","o","v","e"," ","t","h","i","s">>,
    <<"E","x","p","l","a","i","n">>,
    <<"h","e","l","l","o">>,
    <<"R","E","V","I","E","W">>,
    <<>>,
    <<" ">> }

ChatEvent(op, arg) ==
    /\ steps < MaxChat
    /\ steps' = steps + 1
    /\ clast' = [op |-> op, arg |-> arg, pre |-> Chat]
    /\ UNCHANGED <<showAIChat, last, selected, terminalVars, analysis>>

\* onChange of the input field, which is disabled while loading
ChatInputChange(value) ==
    /\ showAIChat
    /\ ~isLoading
    /\ chatInput' = value
    /\ UNCHANGED <<messages, isLoading, confidence, requests, documentVars>>
    /\ ChatEvent("type", value)

\* A quick-action button, rendered while the transcript holds the welcome
\* message only
QuickPromptClick(i) ==
    /\ showAIChat
    /\ Len(messages) = 1
    /\ chatInput' = quickPrompts[i]
    /\ UNCHANGED <<messages, isLoading, confidence, requests, documentVars>>
    /\ ChatEvent("quickPrompt", quickPrompts[i])

\* The send button, disabled for a blank input and while loading
SendClick ==
    /\ showAIChat
    /\ Trim(chatInput) # <<>>
    /\ ~isLoading
    /\ handleSend
    /\ ChatEvent("send", chatInput)

\* handleKeyPress for Enter without Shift in the input field
EnterKeyPress ==
    /\ showAIChat
    /\ ~isLoading
    /\ handleSend
    /\ ChatEvent("send", chatInput)

\* The service call of r ends and handleSend runs to its end. A call that
\* fails does so before the service awaits anything, so handleSend resumes
\* before any other event is delivered; a call that succeeds may have
\* awaited a timer.
ServiceSettles(r, outcome) ==
    /\ outcome = "rejected" => r.id = steps - 1
    /\ handleSendResumes(r, outcome)
    /\ ChatEvent(outcome, <<>>)

\* The timer of r's apply offer fires
ApplyTimerFires(r) ==
    /\ applyTimeout(r)
    /\ ChatEvent("applyOffer", <<>>)

\* The header's AI Assistant button of App mounts or unmounts the
\* component; a mounted component starts from its initial state, and the
\* calls of an unmounted one are left running.
AIChatToggle ==
    /\ steps < MaxChat
    /\ steps' = steps + 1
    /\ showAIChat' = ~showAIChat
    /\ messages' = InitialChat.messages
    /\ chatInput' = InitialChat.input
    /\ isLoading' = InitialChat.isLoading
    /\ confidence' = InitialChat.confidence
    /\ requests' = { [r EXCEPT !.mounted = FALSE] : r \in requests }
    /\ clast' = [op |-> "toggle", arg |-> <<>>, pre |-> Chat]
    /\ UNCHANGED <<workspaceVars, terminalVars, analysis>>

NextChat ==
    \/ \E value \in ChatTexts : ChatInputChange(value)
    \/ \E i \in 1..Len(quickPrompts) : QuickPromptClick(i)
    \/ SendClick
    \/ EnterKeyPress
    \/ \E r \in requests, outcome \in {"resolved", "rejected"} : ServiceSettles(r, outcome)
    \/ \E r \in requests : ApplyTimerFires(r)
    \/ AIChatToggle

SpecChat == Init /\ [][NextChat]_vars

----------------------------------------------------------------------------
(* Code analysis by the assistant's service: analyzeCode of the mock       *)
(* service (src/unnamed/part_001) and analyzeCode with its complexity      *)
(* metric of the service AIChat imports (src/unnamed/part_002)             *)

\* Number of analyzeCode calls explored from the initial state.
MaxAnalyses == 2

Min(a, b) == IF a <= b THEN a ELSE b
Max(a, b) == IF a >= b THEN a ELSE b

Digits == {"0","1","2","3","4","5","6","7","8","9"}

\* The characters \w matches.
WordCharacters ==
    { UpperCaseLetters[k] : k \in 1..26 } \cup { LowerCaseLetters[k] : k \in 1..26 }
        \cup Digits \cup {"_"}

\* The assertion \b at index i of str (0-based, between str[i] and
\* str[i + 1] in 1-based terms): exactly one side is a word character.
WordBoundary(str, i) ==
    (i >= 1 /\ i <= Len(str) /\ str[i] \in WordCharacters)
        # (i + 1 <= Len(str) /\ str[i + 1] \in WordCharacters)

complexityKeywords == <<
    <<"i","f">>,
    <<"e","l","s","e"," ","i","f">>,
    <<"w","h","i","l","e">>,
    <<"f","o","r">>,
    <<"s","w","i","t","c","h">>,
    <<"c","a","s","e">>,
    <<"c","a","t","c","h">>,
    <<"&","&">>,
    <<"|","|">>,
    <<"?">> >>

\* new RegExp(`\\b${keyword}\\b`, 'g') throws a SyntaxError when the
\* keyword starts with a quantifier: after the assertion \b there is
\* nothing to repeat.
RegExpThrows(keyword) == keyword # <<>> /\ keyword[1] \in {"?", "*", "+"}

\* The length of the match of \b<keyword>\b at index i of code (0-based),
\* or -1. A '|' in the keyword separates alternatives, tried in order; the
\* first carries the leading \b and the last the trailing one.
MatchLengthAt(code, i, keyword) ==
    LET alternatives == Split(keyword, "|")
        n == Len(alternatives)
        matches(j) ==
            LET literal == alternatives[j]
            IN  /\ i + Len(literal) <= Len(code)
                /\ SubSeq(code, i + 1, i + Len(literal)) = literal
                /\ j = 1 => WordBoundary(code, i)
                /\ j = n => WordBoundary(code, i + Len(literal))
    IN  IF \E j \in 1..n : matches(j)
        THEN Len(alternatives[CHOOSE j \in 1..n :
                                  matches(j) /\ \A k \in 1..(j - 1) : ~matches(k)])
        ELSE -1

\* code.match(regex) with the g flag, from index i on: the number of
\* matches; after an empty match the search moves on by one character.
RECURSIVE CountMatches(_, _, _)
CountMatches(code, i, keyword) ==
    IF i > Len(code) THEN 0
    ELSE LET length == MatchLengthAt(code, i, keyword)
         IN  IF length < 0
             THEN CountMatches(code, i + 1, keyword)
             ELSE 1 + CountMatches(code, i + Max(length, 1), keyword)

\* The sum of the match counts of the first n keywords.
RECURSIVE KeywordMatches(_, _)
KeywordMatches(code, n) ==
    IF n = 0 THEN 0
    ELSE KeywordMatches(code, n - 1) + CountMatches(code, 0, complexityKeywords[n])

\* calculateCyclomaticComplexity: whether it threw, and the value it
\* returned otherwise.
calculateCyclomaticComplexity(code) ==
    IF \E k \in 1..Len(complexityKeywords) : RegExpThrows(complexityKeywords[k])
    THEN [threw |-> TRUE, value |-> 0]
    ELSE [threw |-> FALSE,
          value |-> Min(1 + KeywordMatches(code, Len(complexityKeywords)), 10)]

\* analyzeCode of part_002: detectIssues and generateSuggestions return,
\* calculateMetrics asks for the complexity first.
analyzeCode(code, language) ==
    LET metric == calculateCyclomaticComplexity(code)
    IN  [service |-> "part_002", code |-> code, language |-> language,
         threw |-> metric.threw, complexity |-> metric.value]

\* analyzeCode of part_001; random is Math.floor(Math.random() * 3).
mockAnalyzeCode(code, language, random) ==
    LET lines == Len(Split(code, "\n"))
    IN  [service |-> "part_001", code |-> code, language |-> language,
         threw |-> FALSE,
         complexity |-> Min(10, Max(1, (lines \div 10) + random))]

\* A text of n lines.
Lines(n) == [i \in 1..(n - 1) |-> "\n"]

\* Document texts handed to the analysis.
CodeTexts == {
    <<>>,
    <<"x">>,
    <<"i","f"," ","(","a",")"," ","{"," ","b","(",")",";"," ","}">>,
    <<"i","f"," ","(","a"," ","&","&"," ","b"," ","|","|"," ","c",")"," ",
      "{"," ","r","e","t","u","r","n"," ","d"," ","?"," ","e"," ",":"," ",
      "f",";"," ","}">>,
    <<"e","l","s","e"," ","i","f"," ","(","x",")"," ","{","}","\n","w","h",
      "i","l","e"," ","(","y",")"," ","{","}","\n","f","o","r"," ","(",";",
      ";",")"," ","{","}","\n","s","w","i","t","c","h"," ","(","z",")"," ",
      "{"," ","c","a","s","e"," ","1",":"," ","}","\n","c","a","t","c","h",
      " ","(","e",")"," ","{","}">>,
    <<"i","f"," ","a","\n","i","f"," ","b","\n","i","f"," ","c","\n","i",
      "f"," ","d","\n","i","f"," ","e","\n","i","f"," ","f","\n","i","f",
      " ","g","\n","i","f"," ","h","\n","i","f"," ","i","\n","i","f"," ",
      "j","\n","i","f"," ","k","\n","i","f"," ","l">>,
    Lines(9), Lines(10), Lines(11), Lines(79), Lines(80), Lines(99), Lines(100),
    Lines(101), Lines(130) }

\* The language AIChat derives from the active path.
Languages == { <<"j","s">>, <<"j","a","v","a","s","c","r","i","p","t">> }

AnalysisCall ==
    /\ steps < MaxAnalyses
    /\ steps' = steps + 1
    /\ UNCHANGED <<workspaceVars, terminalVars, chatVars>>

AnalyzeCodeCall(code, language) ==
    /\ AnalysisCall
    /\ analysis' = analyzeCode(code, language)

MockAnalyzeCodeCall(code, language, random) ==
    /\ AnalysisCall
    /\ analysis' = mockAnalyzeCode(code, language, random)

NextAnalysis ==
    \/ \E code \in CodeTexts, language \in Languages : AnalyzeCodeCall(code, language)
    \/ \E code \in CodeTexts, language \in Languages, random \in 0..2 :
           MockAnalyzeCodeCall(code, language, random)

SpecAnalysis == Init /\ [][NextAnalysis]_vars

----------------------------------------------------------------------------
(* Properties of the workspace *)

Keys(obj) == DOMAIN obj
Elements(arr) == { arr[i] : i \in 1..Len(arr) }
Position(arr, x) == CHOOSE i \in 1..Len(arr) : arr[i] = x
EndsWith(text, suffix) ==
    Len(text) >= Len(suffix)
    /\ SubSeq(text, Len(text) - Len(suffix) + 1, Len(text)) = suffix

\* C1: in every state reachable through file-tree selections, tab clicks,
\* tab closes and edits, the active path is null or an element of the
\* open-paths sequence.
C1_ActiveIsNullOrOpen ==
    activeFile = Null \/ activeFile \in Elements(openFiles)

\* C1 case: the active tab was closed while other tabs stayed open.
C1_Witness ==
    /\ last.op = "closeFile"
    /\ last.arg = last.pre.activeFile
    /\ openFiles # <<>>
    /\ activeFile \in Elements(openFiles)

\* C2: after closeFile(p) where p was the active path, the active path is
\* the last element of the resulting open-paths sequence, and it is null
\* if and only if that sequence is empty.
C2_CloseActiveSelectsLast ==
    (last.op = "closeFile" /\ last.arg = last.pre.activeFile) =>
        /\ (activeFile = Null) <=> (openFiles = <<>>)
        /\ openFiles # <<>> => activeFile = openFiles[Len(openFiles)]

\* C2 case: the active tab was closed, it was not the last tab, and at
\* least two tabs remain.
C2_Witness ==
    /\ last.op = "closeFile"
    /\ last.arg = last.pre.activeFile
    /\ Len(openFiles) >= 2
    /\ Position(last.pre.openFiles, last.arg) < Len(last.pre.openFiles)
    /\ activeFile = openFiles[Len(openFiles)]

\* C3: the open-paths sequence never contains the same path twice.
C3_OpenFilesDuplicateFree ==
    \A i, j \in 1..Len(openFiles) : openFiles[i] = openFiles[j] => i = j

\* C3 case: a path that was already open has been selected again.
C3_Witness ==
    /\ last.op = "selectFile"
    /\ last.arg \in Elements(last.pre.openFiles)
    /\ Len(openFiles) >= 2

\* C4: if the active path is non-null, the content mapping has an entry
\* for it.
C4_ActiveHasContent ==
    activeFile # Null => activeFile \in Keys(fileContents)

\* C4 case: a path without a content entry was selected and is now active.
C4_Witness ==
    /\ last.op = "selectFile"
    /\ last.arg \notin Keys(last.pre.fileContents)
    /\ activeFile = last.arg

\* C5: selectFile(p) makes p the active path; a path that was not open is
\* appended as the new last element, and for a path that was already open
\* the sequence is left exactly as it was.
C5_SelectFileEffect ==
    last.op = "selectFile" =>
        /\ activeFile = last.arg
        /\ last.arg \notin Elements(last.pre.openFiles) =>
               openFiles = last.pre.openFiles \o <<last.arg>>
        /\ last.arg \in Elements(last.pre.openFiles) =>
               openFiles = last.pre.openFiles

\* C5 case: an open, inactive path that is not the last tab was selected.
C5_Witness ==
    /\ last.op = "selectFile"
    /\ last.arg \in Elements(last.pre.openFiles)
    /\ last.arg # last.pre.activeFile
    /\ Position(last.pre.openFiles, last.arg) < Len(last.pre.openFiles)

\* C6: content changes only by full-text replacement from the editor:
\* selectFile(p) on a path that already has a content entry (whatever its
\* text, the empty text included) leaves the entry unchanged, and closeFile
\* and setActiveFile change no entry.
C6_ContentChangedOnlyByEdits ==
    /\ (last.op = "selectFile" /\ last.arg \in Keys(last.pre.fileContents)) =>
           fileContents = last.pre.fileContents
    /\ last.op \in {"closeFile", "setActiveFile"} =>
           fileContents = last.pre.fileContents

\* The text after the last '.', or the whole path when it holds no '.'.
LastSegment(path) ==
    LET dots == { i \in 1..Len(path) : path[i] = "." }
    IN  IF dots = {} THEN path
        ELSE SubSeq(path, (CHOOSE i \in dots : \A j \in dots : j <= i) + 1, Len(path))

\* The shape of the default template for a path.
IsDefaultTemplateFor(text, path) ==
    LET ext == LastSegment(path)
    IN  /\ text # <<>>
        /\ ext = <<"j","s">> => StartsWith(text, <<"/","/"," ">> \o path)
        /\ ext = <<"p","y">> => StartsWith(text, <<"#"," ">> \o path)
        /\ ext = <<"h","t","m","l">> => text = HtmlSkeleton
        /\ ext = <<"c","s","s">> =>
               /\ StartsWith(text, <<"/","*"," ">> \o path)
               /\ EndsWith(text, <<"*","/","\n","\n">>)
        /\ ext \notin {<<"j","s">>, <<"p","y">>, <<"h","t","m","l">>, <<"c","s","s">>} =>
               StartsWith(text, <<"/","/"," ">> \o path)

\* C7 as stated: for every path p not previously selected, selectFile(p)
\* followed by a content lookup of p returns the default template for p's
\* extension.
C7_NotSelectedYieldsTemplate ==
    (last.op = "selectFile" /\ last.arg \notin last.selected) =>
        IsDefaultTemplateFor(Get(fileContents, last.arg), last.arg)

\* C7 amended: for every path p that has no entry in the content mapping
\* (neither seeded nor given content by an earlier selection), selectFile(p)
\* followed by a content lookup of p returns the non-empty default template
\* for the last '.'-separated segment of p.
C7_NoEntryYieldsTemplate ==
    (last.op = "selectFile" /\ last.arg \notin Keys(last.pre.fileContents)) =>
        IsDefaultTemplateFor(Get(fileContents, last.arg), last.arg)

\* C7 case: a '.py' path without an entry was selected and got a '#' header.
C7_Witness ==
    /\ last.op = "selectFile"
    /\ last.arg \notin Keys(last.pre.fileContents)
    /\ LastSegment(last.arg) = <<"p","y">>
    /\ Len(last.arg) > 2
    /\ StartsWith(Get(fileContents, last.arg), <<"#">>)

\* C8: the key set of the content mapping never shrinks: every operation
\* keeps every key it found, so the seeded keys and every key added later
\* are present in all later states.
C8_KeysNeverShrink ==
    /\ Keys(last.pre.fileContents) \subseteq Keys(fileContents)
    /\ Keys(InitialFileContents) \subseteq Keys(fileContents)

\* C8 case: the last open tab, of a document created by selection, was
\* closed and its entry is still there.
C8_Witness ==
    /\ last.op = "closeFile"
    /\ last.arg \in Elements(last.pre.openFiles)
    /\ openFiles = <<>>
    /\ last.arg \notin Keys(InitialFileContents)
    /\ last.arg \in Keys(fileContents)

\* C9: an edit made while a path a is active replaces exactly the content
\* stored for a; the key set, the content of every other path, the
\* open-paths sequence and the active path are unchanged.
C9_EditReplacesActiveOnly ==
    (last.op = "updateContent" /\ last.pre.activeFile # Null) =>
        LET a == last.pre.activeFile
        IN  /\ Keys(fileContents) = Keys(last.pre.fileContents)
            /\ Get(fileContents, a) = last.arg
            /\ \A k \in Keys(fileContents) \ {a} :
                   fileContents[k] = Get(last.pre.fileContents, k)
            /\ openFiles = last.pre.openFiles
            /\ activeFile = a

\* C9 case: an edit changed the text of the active path while another
\* document had content too.
C9_Witness ==
    /\ last.op = "updateContent"
    /\ last.pre.activeFile # Null
    /\ Get(fileContents, last.pre.activeFile) = last.arg
    /\ Get(last.pre.fileContents, last.pre.activeFile) # last.arg
    /\ Len(openFiles) >= 2

\* C10: an edit issued while no path is active is dropped: the content
\* mapping, the open-paths sequence and the active path are unchanged.
C10_EditWithoutActiveDropped ==
    (last.op = "updateContent" /\ last.pre.activeFile = Null) =>
        Workspace = last.pre

\* C10 case: a non-empty text was submitted while no path was active.
C10_Witness ==
    /\ last.op = "updateContent"
    /\ last.pre.activeFile = Null
    /\ last.arg # <<>>
    /\ activeFile = Null

\* C11: closeFile(p) when p is not in open-paths changes nothing, so
\* closing a path twice in a row leaves the open-paths sequence and the
\* active path as they were after closing it once.
C11_CloseIsIdempotent ==
    /\ (last.op = "closeFile" /\ last.arg \notin Elements(last.pre.openFiles)) =>
           Workspace = last.pre
    /\ last.op = "closeFile" => last.arg \notin Elements(openFiles)
    /\ \A before \in last.prev :
           before.op = "closeFile" =>
               /\ openFiles = last.pre.openFiles
               /\ activeFile = last.pre.activeFile

\* C11 case: an open, inactive path was closed and then closed again while
\* another tab stayed open.
C11_Witness ==
    /\ last.op = "closeFile"
    /\ \E before \in last.prev :
           /\ before.op = "closeFile"
           /\ last.arg \in Elements(before.pre.openFiles)
           /\ last.arg # before.pre.activeFile
    /\ last.arg \notin Elements(last.pre.openFiles)
    /\ activeFile \in Elements(openFiles)

\* C12: setActiveFile(p) changes only the active path: the open-paths
\* sequence and every entry of the content mapping are unchanged.
C12_SetActiveChangesOnlyActive ==
    last.op = "setActiveFile" =>
        /\ activeFile = last.arg
        /\ openFiles = last.pre.openFiles
        /\ fileContents = last.pre.fileContents

\* C12 case: a tab other than the active one was clicked.
C12_Witness ==
    /\ last.op = "setActiveFile"
    /\ last.arg # last.pre.activeFile
    /\ activeFile = last.arg

\* C13: from a state where p is not in open-paths and the active path is
\* the last element of open-paths, selectFile(p) followed by closeFile(p)
\* restores the open-paths sequence and the active path, and content[p]
\* remains present.
C13_SelectCloseRoundTrip ==
    \A before \in last.prev :
        ( /\ before.op = "selectFile"
          /\ last.arg \notin Elements(before.pre.openFiles)
          /\ before.pre.openFiles # <<>>
          /\ before.pre.activeFile = before.pre.openFiles[Len(before.pre.openFiles)] )
        => /\ openFiles = before.pre.openFiles
           /\ activeFile = before.pre.activeFile
           /\ last.arg \in Keys(fileContents)

\* C13 case: with two tabs open and the last one active, a '.py' path
\* that was not open was selected and then closed.
C13_Witness ==
    /\ last.op = "closeFile"
    /\ LastSegment(last.arg) = <<"p","y">>
    /\ \E before \in last.prev :
           /\ before.op = "selectFile"
           /\ last.arg \notin Elements(before.pre.openFiles)
           /\ Len(before.pre.openFiles) >= 2
           /\ before.pre.activeFile = before.pre.openFiles[Len(before.pre.openFiles)]
           /\ StartsWith(Get(fileContents, last.arg), <<"#">>)

----------------------------------------------------------------------------
(* Properties of the terminal simulator *)

\* The line without its leading white space, and without white space at
\* either end.
WithoutLeadingSpace(line) ==
    LET solid == { i \in 1..Len(line) : line[i] \notin WhiteSpace }
    IN  IF solid = {} THEN <<>>
        ELSE SubSeq(line, CHOOSE i \in solid : \A j \in solid : i <= j, Len(line))
Stripped(line) ==
    LET solid == { i \in 1..Len(line) : line[i] \notin WhiteSpace }
    IN  IF solid = {} THEN <<>>
        ELSE SubSeq(line, CHOOSE i \in solid : \A j \in solid : i <= j,
                          CHOOSE i \in solid : \A j \in solid : j <= i)
LowerCased(line) ==
    [i \in 1..Len(line) |->
        IF \E k \in 1..26 : UpperCaseLetters[k] = line[i]
        THEN LowerCaseLetters[CHOOSE k \in 1..26 : UpperCaseLetters[k] = line[i]]
        ELSE line[i]]

\* The trimmed, lower-cased form of a typed line.
Normalised(line) == LowerCased(Stripped(line))

FixedCommands ==
    {CmdHelp, CmdClear, CmdLs, CmdPwd, CmdDate, CmdWhoami, CmdNodeVersion,
     CmdNpmVersion, CmdGitVersion}

IsEchoLine(line) ==
    LET n == Normalised(line)
    IN  Len(n) >= 5 /\ SubSeq(n, 1, 5) = <<"e","c","h","o"," ">>

Contains(text, part) ==
    \E i \in 0..(Len(text) - Len(part)) : SubSeq(text, i + 1, i + Len(part)) = part

IsPrefixOf(short, long) ==
    Len(short) <= Len(long) /\ SubSeq(long, 1, Len(short)) = short

\* The line was submitted with Enter and executed (it was not blank).
Executed == tlast.op = "Enter" /\ Stripped(tlast.arg) # <<>>

\* The entries the last event added to the log it found.
NewEntries ==
    IF IsPrefixOf(tlast.pre.output, output)
    THEN SubSeq(output, Len(tlast.pre.output) + 1, Len(output))
    ELSE output

\* C14 as stated: for every submitted line whose trimmed, lower-cased form
\* starts with 'echo ', the response entry is of type 'output' and its
\* content is exactly the text after the 'echo ' prefix, case preserved,
\* whatever the leading white space and the letter case of 'echo'.
C14_EchoPrintsArgument ==
    (tlast.op = "Enter" /\ IsEchoLine(tlast.arg)) =>
        /\ output # <<>>
        /\ output[Len(output)].type = "output"
        /\ output[Len(output)].content = Substring(WithoutLeadingSpace(tlast.arg), 5)

\* C15: executing 'clear', in any letter case and with any surrounding
\* white space, leaves the log empty and removes no entry from the history
\* buffer; the header's clear button empties the log and leaves the history
\* buffer and the history cursor unchanged.
C15_ClearKeepsHistory ==
    /\ (tlast.op = "Enter" /\ Normalised(tlast.arg) = CmdClear) =>
           /\ output = <<>>
           /\ IsPrefixOf(tlast.pre.commandHistory, commandHistory)
    /\ tlast.op = "clearButton" =>
           /\ output = <<>>
           /\ commandHistory = tlast.pre.commandHistory
           /\ historyIndex = tlast.pre.historyIndex

\* C15 case: ' Clear ' was executed with a command in the history buffer
\* and entries in the log.
C15_Witness ==
    /\ tlast.op = "Enter"
    /\ tlast.arg = <<" ","C","l","e","a","r"," ">>
    /\ tlast.pre.commandHistory # <<>>
    /\ tlast.pre.output # <<>>
    /\ output = <<>>
    /\ Len(commandHistory) = Len(tlast.pre.commandHistory) + 1

\* C16 as stated: any submitted line whose trimmed, lower-cased form is not
\* a fixed command and does not start with 'echo ' appends a response entry
\* of type 'error' whose content contains the typed command; no other line
\* produces an 'error' entry.
C16_UnknownSubmittedIsError ==
    tlast.op = "Enter" =>
        IF Normalised(tlast.arg) \notin FixedCommands /\ ~IsEchoLine(tlast.arg)
        THEN /\ NewEntries # <<>>
             /\ NewEntries[Len(NewEntries)].type = "error"
             /\ Contains(NewEntries[Len(NewEntries)].content, tlast.arg)
        ELSE \A i \in 1..Len(NewEntries) : NewEntries[i].type # "error"

\* C16 amended: any executed line (not blank after trimming) whose trimmed,
\* lower-cased form is not a fixed command and does not start with 'echo '
\* appends a response entry of type 'error' whose content contains the typed
\* command; no other line, and no other event, produces an 'error' entry.
C16_UnknownExecutedIsError ==
    IF Executed /\ Normalised(tlast.arg) \notin FixedCommands /\ ~IsEchoLine(tlast.arg)
    THEN /\ Len(NewEntries) = 2
         /\ NewEntries[2].type = "error"
         /\ Contains(NewEntries[2].content, tlast.arg)
    ELSE \A i \in 1..Len(NewEntries) : NewEntries[i].type # "error"

\* C16 case: 'echo' alone, which is no echo command, was executed and
\* answered with an error.
C16_Witness ==
    /\ Executed
    /\ tlast.arg = <<"e","c","h","o">>
    /\ output[Len(output)].type = "error"

\* The typed line of an 'input' entry.
LineOf(entry) == SubSeq(entry.content, 3, Len(entry.content))

\* C17: two executed lines with the same normalised form, one of the fixed
\* commands other than echo and date, get response entries with the same
\* type and content.
C17_DispatchOnNormalisedForm ==
    \A i, j \in 1..Len(output) :
        ( /\ output[i].type = "input"
          /\ output[j].type = "input"
          /\ Normalised(LineOf(output[i])) = Normalised(LineOf(output[j]))
          /\ Normalised(LineOf(output[i])) \in FixedCommands \ {CmdDate} )
        => /\ i < Len(output)
           /\ j < Len(output)
           /\ output[i + 1] = output[j + 1]

\* C17 case: the log holds two differently typed lines with the same
\* normalised form.
C17_Witness ==
    \E i, j \in 1..Len(output) :
        /\ output[i].type = "input"
        /\ output[j].type = "input"
        /\ LineOf(output[i]) # LineOf(output[j])
        /\ Normalised(LineOf(output[i])) = Normalised(LineOf(output[j]))
        /\ Normalised(LineOf(output[i])) \in FixedCommands \ {CmdDate}

C19_LogAppendOnly ==
    /\ (Executed /\ Normalised(tlast.arg) # CmdClear) =>
           /\ Len(output) = Len(tlast.pre.output) + 2
           /\ SubSeq(output, 1, Len(tlast.pre.output)) = tlast.pre.output
           /\ output[Len(output) - 1] = Entry("input", <<"$"," ">> \o tlast.arg)
           /\ output[Len(output)].type \in {"output", "error"}
    /\ (tlast.op \in {"type", "ArrowUp", "ArrowDown"}
           \/ (tlast.op = "Enter" /\ ~Executed)) =>
           output = tlast.pre.output
    /\ \A i \in 1..Len(output) :
           output[i].type = "input" =>
               i < Len(output) /\ output[i + 1].type \in {"output", "error"}

\* C19 case: a second command was executed on a log that already held a
\* command and its response.
C19_Witness ==
    /\ Executed
    /\ Normalised(tlast.arg) # CmdClear
    /\ \E i \in 1..Len(tlast.pre.output) : tlast.pre.output[i].type = "input"
    /\ Len(output) = Len(tlast.pre.output) + 2

----------------------------------------------------------------------------
(* Properties of the assistant panel *)

\* The branch the fixed priority order gives for a text: analyze / review,
\* then optimize / improve, then explain, then generation.
BranchByPriority(text) ==
    LET lower == LowerCased(text)
        has(word) == Contains(lower, word)
    IN  CASE has(Analyze) \/ has(Review) -> "analysis"
          [] ~(has(Analyze) \/ has(Review)) /\ (has(Optimize) \/ has(Improve)) ->
                 "optimization"
          [] ~(has(Analyze) \/ has(Review) \/ has(Optimize) \/ has(Improve))
                 /\ has(Explain) -> "explanation"
          [] OTHER -> "generation"

\* The message was sent: handleSend ran with an input that is not blank.
Sent == clast.op = "send" /\ Stripped(clast.arg) # <<>>

\* The service calls that were running before the last event.
StartedBefore == { r.id : r \in clast.pre.requests }

\* C20: routing follows a fixed priority on the lower-cased input: analyze
\* or review selects analysis whatever else the input holds, otherwise
\* optimize or improve selects optimization, otherwise explain selects
\* explanation, otherwise generation; each send starts exactly one service
\* call, and the response it appends is the one of its branch.
C20_RoutingPriority ==
    /\ Sent =>
           \E r \in requests :
               /\ { q \in requests : q.id \notin StartedBefore } = {r}
               /\ r.branch = BranchByPriority(clast.arg)
               /\ r.stage = "awaiting"
    /\ ~Sent => \A q \in requests : q.id \in StartedBefore
    /\ (clast.op = "resolved" /\ Len(messages) > Len(clast.pre.messages)) =>
           \E r \in clast.pre.requests \ requests :
               /\ r.stage = "awaiting"
               /\ messages = Append(clast.pre.messages, ResponseMessage(r.branch))
               /\ messages[Len(messages)].kind = r.branch

\* C20 case: an input naming explain and, after it, optimize was sent.
C20_Witness ==
    /\ Sent
    /\ clast.arg = <<"e","x","p","l","a","i","n"," ","a","n","d"," ",
                     "o","p","t","i","m","i","z","e">>
    /\ \E r \in requests : r.branch = "optimization"

----------------------------------------------------------------------------
(* Further properties of the workspace *)

\* C25: in every reachable state the active path is null if and only if
\* the open-paths sequence is empty: there is no open tab without an
\* active document and no active document without a tab.
C25_ActiveNullIffNoTabs ==
    (activeFile = Null) <=> (openFiles = <<>>)

\* C25 case: the last tab was closed.
C25_Witness ==
    /\ last.op = "closeFile"
    /\ last.pre.openFiles # <<>>
    /\ openFiles = <<>>
    /\ activeFile = Null

\* The sequence without its i-th element.
WithoutIndex(arr, i) == SubSeq(arr, 1, i - 1) \o SubSeq(arr, i + 1, Len(arr))

\* C26: closeFile(p) for an open path p that is not the active path leaves
\* the active path unchanged and removes only p from open-paths, keeping
\* the other paths in their order.
C26_CloseInactiveKeepsActive ==
    ( /\ last.op = "closeFile"
      /\ last.arg \in Elements(last.pre.openFiles)
      /\ last.arg # last.pre.activeFile )
    => /\ activeFile = last.pre.activeFile
       /\ openFiles = WithoutIndex(last.pre.openFiles,
                                   Position(last.pre.openFiles, last.arg))

\* C26 case: with three tabs open, the middle one, which was not active,
\* was closed.
C26_Witness ==
    /\ last.op = "closeFile"
    /\ Len(last.pre.openFiles) = 3
    /\ last.arg = last.pre.openFiles[2]
    /\ last.arg # last.pre.activeFile
    /\ Len(openFiles) = 2

\* The three documents App is created with.
SeededPaths == {MainJs, ReadmeMd, PackageJson}

\* C27: in every reachable state every open path has an entry in the
\* content mapping, and every key of the content mapping is a file path of
\* the static file tree or one of the three seeded documents.
C27_KeysBounded ==
    /\ \A p \in Elements(openFiles) : p \in Keys(fileContents)
    /\ Keys(fileContents) \subseteq (SidebarPaths \cup SeededPaths)

\* C27 case: a file of the tree that is not seeded is open and has an
\* entry.
C27_Witness ==
    \E p \in Elements(openFiles) :
        /\ p \notin SeededPaths
        /\ p \in SidebarPaths
        /\ p \in Keys(fileContents)

----------------------------------------------------------------------------
(* Further properties of the terminal simulator *)

\* C28: every executed line (not blank after trimming), 'clear' and unknown
\* commands included, is appended exactly as typed to the end of the
\* history buffer and resets the history cursor to -1, so that the next
\* 'previous' recalls that line; a blank or whitespace-only line changes
\* neither the log nor the history buffer.
C28_ExecutedLineRecorded ==
    /\ Executed =>
           /\ commandHistory = Append(tlast.pre.commandHistory, tlast.arg)
           /\ historyIndex = -1
    /\ ( /\ tlast.op = "ArrowUp"
         /\ tlast.pre.historyIndex = -1
         /\ tlast.pre.commandHistory # <<>> )
       => input = tlast.pre.commandHistory[Len(tlast.pre.commandHistory)]
    /\ (tlast.op = "Enter" /\ ~Executed) =>
           /\ output = tlast.pre.output
           /\ commandHistory = tlast.pre.commandHistory

\* C28 case: ' Clear ' was executed and the next 'previous' recalled it as
\* typed.
C28_Witness ==
    /\ tlast.op = "ArrowUp"
    /\ tlast.pre.historyIndex = -1
    /\ tlast.pre.input = <<>>
    /\ input = <<" ","C","l","e","a","r"," ">>
    /\ input = commandHistory[Len(commandHistory)]

----------------------------------------------------------------------------
(* Properties of the code analysis *)

\* C21: the complexity score reported by code analysis is an integer
\* within [1,10] for every document text: every call of analyzeCode
\* returns, and its score is between 1 and 10.
C21_ComplexityInRange ==
    analysis.service # "none" =>
        /\ ~analysis.threw
        /\ analysis.complexity \in 1..10

----------------------------------------------------------------------------
(* Further properties of the assistant panel *)

\* The calls that were awaiting the service in the panel that is shown.
InFlight(reqs) == { r \in reqs : r.mounted /\ r.stage = "awaiting" }

\* The number of messages the user sent in a transcript.
RECURSIVE UserMessages(_)
UserMessages(transcript) ==
    IF transcript = <<>> THEN 0
    ELSE (IF transcript[Len(transcript)].type = "user" THEN 1 ELSE 0)
             + UserMessages(SubSeq(transcript, 1, Len(transcript) - 1))

\* C22: a pending response is never cancelled: once a message has been
\* sent, its response, its fallback and its apply offer are appended to the
\* transcript when they arrive, also if the panel was closed or the input
\* changed in the meantime.
C22_PendingResponseLands ==
    clast.op \in {"resolved", "rejected", "applyOffer"} =>
        /\ Len(messages) = Len(clast.pre.messages) + 1
        /\ messages[Len(messages)].type = "assistant"
        /\ SubSeq(messages, 1, Len(clast.pre.messages)) = clast.pre.messages

\* C23: if the service request fails during a send, the failure is caught:
\* exactly one assistant message with the static fallback text is appended
\* to the transcript, directly after the user's message, the call ends
\* (nothing propagates) and the loading flag is cleared.
C23_FailureGivesFallback ==
    clast.op = "rejected" =>
        /\ messages = Append(clast.pre.messages, FallbackMessage)
        /\ clast.pre.messages[Len(clast.pre.messages)].type = "user"
        /\ ~isLoading
        /\ Cardinality(requests) = Cardinality(clast.pre.requests) - 1
        /\ InFlight(requests) = {}

\* C23 case: a request for an explanation failed.
C23_Witness ==
    /\ clast.op = "rejected"
    /\ \E r \in clast.pre.requests : r.branch = "explanation" /\ r \notin requests
    /\ messages[Len(messages)].kind = "fallback"

\* C24: no assistant-panel action (send, response arrival, fallback, apply
\* offer) changes the workspace: after any of them the content mapping,
\* the open paths and the active path are the ones App started with.
C24_PanelLeavesWorkspace ==
    /\ fileContents = InitialFileContents
    /\ openFiles = <<MainJs>>
    /\ activeFile = MainJs

\* C24 case: the apply offer for generated code was appended.
C24_Witness ==
    /\ clast.op = "applyOffer"
    /\ messages[Len(messages)].kind = "applyOffer"
    /\ \E i \in 1..Len(messages) : messages[i].type = "user"

\* C29: while the panel stays mounted at most one request is in flight:
\* from the moment a message is sent until its response or fallback is
\* appended the loading flag is true and no further user message is
\* appended; a blank or whitespace-only input appends no message and
\* starts no request.
C29_OneRequestInFlight ==
    /\ Cardinality(InFlight(requests)) <= 1
    /\ isLoading <=> InFlight(requests) # {}
    /\ (clast.pre.isLoading /\ clast.op # "toggle") =>
           UserMessages(messages) = UserMessages(clast.pre.messages)
    /\ (clast.op = "send" /\ Stripped(clast.arg) = <<>>) =>
           /\ messages = clast.pre.messages
           /\ requests = clast.pre.requests

\* C29 case: a message was sent while a call of an earlier, closed panel
\* was still awaiting the service.
C29_Witness ==
    /\ Sent
    /\ isLoading
    /\ Cardinality(InFlight(requests)) = 1
    /\ \E r \in requests : ~r.mounted /\ r.stage = "awaiting"

\* C30, its ordering part: a delayed apply offer is appended directly after
\* the generation reply it belongs to, with no other message between them.
C30_ApplyOfferFollowsReply ==
    \A i \in 1..Len(messages) :
        messages[i].kind = "applyOffer" =>
            i > 1 /\ messages[i - 1].kind = "generation"

====
